---- MODULE Spec2Model ----
(***************************************************************************)
(* Model of PlayerReconciler (src/player_reconcile.py): the reconciliation *)
(* loop (reconcile_players), the diff of a matched row                     *)
(* (_check_player_updates), the insert builder (_prepare_player_insert),   *)
(* the rendering of the SQL script (generate_sql_script, _escape_sql) and  *)
(* the flow of run().                                                      *)
(*                                                                         *)
(* Text is a sequence of one-character strings, so that strip(), upper(),  *)
(* replace() and str() are computed, not assumed.                          *)
(***************************************************************************)
EXTENDS Integers, Sequences, FiniteSets, TLC

\* Longest source sequence (number of feed rows) the model explores.
MaxRows == 2

-----------------------------------------------------------------------------
(* Cell values of a feed row.  k is the Python type of the cell:            *)
(*   "absent" - the column is not in the row (Series.get returns default)   *)
(*   "nan"    - an empty CSV cell, which pandas reads as float NaN          *)
(*   "none"   - Python None (the default of .get without a default)         *)
(*   "str"    - a string, s its characters                                  *)
(*   "num"    - a number, n its value                                       *)

Val(k, s, n) == [k |-> k, s |-> s, n |-> n]
Absent == Val("absent", <<>>, 0)
NaN == Val("nan", <<>>, 0)
None == Val("none", <<>>, 0)
Str(s) == Val("str", s, 0)
Num(n) == Val("num", <<>>, n)

\* Series.get(key, default): the default only when the key is not in the row.
Get(row, key, default) == IF row[key].k = "absent" THEN default ELSE row[key]

\* pd.isna(value)
IsNa(v) == v.k \in {"nan", "none"}

LowerLetters ==
  <<"a","b","c","d","e","f","g","h","i","j","k","l","m",
    "n","o","p","q","r","s","t","u","v","w","x","y","z">>

UpperLetters ==
  <<"A","B","C","D","E","F","G","H","I","J","K","L","M",
    "N","O","P","Q","R","S","T","U","V","W","X","Y","Z">>

DigitChars == <<"0","1","2","3","4","5","6","7","8","9">>

IndexIn(seq, c) == CHOOSE i \in 1..Len(seq) : seq[i] = c

InSeq(seq, c) == \E i \in 1..Len(seq) : seq[i] = c

RECURSIVE Digits(_)
\* str(n) of a non-negative integer
Digits(n) ==
  IF n < 10 THEN <<DigitChars[n + 1]>>
  ELSE Digits(n \div 10) \o <<DigitChars[(n % 10) + 1]>>

\* str(value)
PyStr(v) ==
  CASE v.k = "str" -> v.s
    [] v.k = "nan" -> <<"n","a","n">>
    [] v.k = "none" -> <<"N","o","n","e">>
    [] v.k = "num" -> Digits(v.n)
    [] OTHER -> <<>>

RECURSIVE LStrip(_)
LStrip(s) == IF s # <<>> /\ Head(s) = " " THEN LStrip(Tail(s)) ELSE s

RECURSIVE RStrip(_)
RStrip(s) ==
  IF s # <<>> /\ s[Len(s)] = " " THEN RStrip(SubSeq(s, 1, Len(s) - 1)) ELSE s

\* str.strip()
Strip(s) == RStrip(LStrip(s))

UpperChar(c) ==
  IF InSeq(LowerLetters, c) THEN UpperLetters[IndexIn(LowerLetters, c)] ELSE c

\* str.upper()
Upper(s) == [i \in 1..Len(s) |-> UpperChar(s[i])]

\* bool(value): None, "", 0 are false; NaN is true
Truthy(v) ==
  CASE v.k = "none" -> FALSE
    [] v.k = "absent" -> FALSE
    [] v.k = "nan" -> TRUE
    [] v.k = "str" -> v.s # <<>>
    [] v.k = "num" -> v.n # 0
    [] OTHER -> FALSE

-----------------------------------------------------------------------------
(* Reference tables (config['teams'], config['positions']): code -> OID.   *)

KC == <<"K","C">>
DEN == <<"D","E","N">>
QB == <<"Q","B">>
RB == <<"R","B">>

get_team_mapping == (KC :> 3) @@ (DEN :> 5)

get_position_mapping == (QB :> 9) @@ (RB :> 12)

\* dict.get(code): the identifier, or None, modelled as 0 (both are falsy)
MapGet(map, code) == IF code \in DOMAIN map THEN map[code] ELSE 0

\* TBLREALTEAMS.TEAMABBREVIATION / TBLPOSITIONS.POSITION of an OID (the LEFT
\* JOINs of fetch_database_players); the empty text when no row joins.
LabelOf(map, id) ==
  IF \E c \in DOMAIN map : map[c] = id
  THEN CHOOSE c \in DOMAIN map : map[c] = id
  ELSE <<>>

-----------------------------------------------------------------------------
(* Messages of self.errors and self.warnings: the parts the f-strings put  *)
(* into the text.                                                          *)

Msg(kind, code, missing, gsis, name) ==
  [kind |-> kind, code |-> code, missing |-> missing, gsis |-> gsis, name |-> name]

\* str(nfl_player.get(key, '')).strip().upper()
NormCode(row, key) == Upper(Strip(PyStr(Get(row, key, Str(<<>>)))))

\* str(nfl_player.get(key, '')).strip()
NormText(row, key) == Strip(PyStr(Get(row, key, Str(<<>>))))

\* nfl_player.get('display_name') as an f-string renders it
DisplayText(row) == PyStr(Get(row, "display_name", None))

\* f"{nfl_player.get('first_name')} {nfl_player.get('last_name')}"
FullName(first, last) == first \o <<" ">> \o last

\* the initial self.stats
ZeroStats ==
  [team_updates |-> 0, position_updates |-> 0, new_players |-> 0,
   errors |-> 0, warnings |-> 0, unchanged |-> 0]

\* a counter that is never raised
BumpNothing(st, key) == st

\* `self.stats[key] += 1`
Bump(st, key) == [st EXCEPT ![key] = @ + 1]

\* `if code and code in map`
CodeKnown(code, map) == code # <<>> /\ code \in DOMAIN map

\* `elif code and code not in map`
CodeUnknown(code, map) == code # <<>> /\ code \notin DOMAIN map

\* a variant that inspects the position in either mode
InspectsPositionAlways(full) == TRUE

\* `if self.full_reconcile:` - whether the position is inspected at all
InspectsPosition(full) == full

\* a variant that takes every resolved identifier for a change
IdsDifferAlways(new_id, old_id) == TRUE

\* `if new_team_id != old_team_id` / `if new_pos_id != old_pos_id`
IdsDiffer(new_id, old_id) == new_id # old_id

FieldChange(old, new, old_abbrev, new_abbrev) ==
  [old |-> old, new |-> new, old_abbrev |-> old_abbrev, new_abbrev |-> new_abbrev]

(* _check_player_updates: the proposal (ret is <<>> for None, else one     *)
(* element) with the statistics and warnings it leaves behind.             *)
_check_player_updates(nfl_player, db_player, team_map, pos_map, full, st, warns) ==
  LET gsis_id == Strip(PyStr(Get(nfl_player, "gsis_id", None)))
      nfl_team == NormCode(nfl_player, "latest_team")
      team_known == CodeKnown(nfl_team, team_map)
      team_changed ==
        team_known /\ IdsDiffer(team_map[nfl_team], db_player.REALTEAMID)
      team_warned == ~team_known /\ CodeUnknown(nfl_team, team_map)
      st1 == IF team_changed THEN Bump(st, "team_updates")
             ELSE IF team_warned THEN Bump(st, "warnings") ELSE st
      w1 == IF team_warned
            THEN Append(warns, Msg("unknown_team", nfl_team, <<>>, gsis_id,
                                   DisplayText(nfl_player)))
            ELSE warns
      inspect == InspectsPosition(full)
      nfl_pos == NormCode(nfl_player, "position")
      pos_known == inspect /\ CodeKnown(nfl_pos, pos_map)
      pos_changed ==
        pos_known /\ IdsDiffer(pos_map[nfl_pos], db_player.POSITIONID)
      pos_warned == inspect /\ ~pos_known /\ CodeUnknown(nfl_pos, pos_map)
      st2 == IF pos_changed THEN Bump(st1, "position_updates")
             ELSE IF pos_warned THEN Bump(st1, "warnings") ELSE st1
      w2 == IF pos_warned
            THEN Append(w1, Msg("unknown_position", nfl_pos, <<>>, gsis_id,
                                DisplayText(nfl_player)))
            ELSE w1
      keys == (IF team_changed THEN {"realteamid"} ELSE {})
                \cup (IF pos_changed THEN {"positionid"} ELSE {})
      changes ==
        [f \in keys |->
           IF f = "realteamid"
           THEN FieldChange(db_player.REALTEAMID, team_map[nfl_team],
                            db_player.CURRENT_TEAM, nfl_team)
           ELSE FieldChange(db_player.POSITIONID, pos_map[nfl_pos],
                            db_player.CURRENT_POSITION, nfl_pos)]
      name == Get(nfl_player, "display_name",
                  Str(FullName(PyStr(Get(nfl_player, "first_name", None)),
                               PyStr(Get(nfl_player, "last_name", None)))))
  IN  [ret |-> IF keys # {}
               THEN <<[oid |-> db_player.OID, gsis |-> gsis_id, name |-> name,
                       changes |-> changes]>>
               ELSE <<>>,
       stats |-> st2,
       warnings |-> w2]

\* `if not text: missing.append(field)`
IsBlank(text) == text = <<>>

\* the `missing` list, in the order of the five checks
MissingFields(gsis_id, first_name, last_name, nfl_team, nfl_pos) ==
  (IF IsBlank(gsis_id) THEN <<"gsis_id">> ELSE <<>>)
    \o (IF IsBlank(first_name) THEN <<"first_name">> ELSE <<>>)
    \o (IF IsBlank(last_name) THEN <<"last_name">> ELSE <<>>)
    \o (IF IsBlank(nfl_team) THEN <<"latest_team">> ELSE <<>>)
    \o (IF IsBlank(nfl_pos) THEN <<"position">> ELSE <<>>)

\* a variant that lets an unresolved identifier through
UnresolvedNever(id) == FALSE

\* `if not team_id` / `if not pos_id`: None and 0 are both false
Unresolved(id) == id = 0

(* _prepare_player_insert: the proposal (ret is <<>> for None) with the    *)
(* statistics and errors it leaves behind.                                 *)
_prepare_player_insert(nfl_player, team_map, pos_map, st, errs) ==
  LET gsis_id == NormText(nfl_player, "gsis_id")
      first_name == NormText(nfl_player, "first_name")
      last_name == NormText(nfl_player, "last_name")
      nfl_team == NormCode(nfl_player, "latest_team")
      nfl_pos == NormCode(nfl_player, "position")
      missing == MissingFields(gsis_id, first_name, last_name, nfl_team, nfl_pos)
      team_id == MapGet(team_map, nfl_team)
      pos_id == MapGet(pos_map, nfl_pos)
      rejected(m) == [ret |-> <<>>, stats |-> Bump(st, "errors"),
                      errors |-> Append(errs, m)]
  IN  IF missing # <<>>
      THEN rejected(Msg("missing_fields", <<>>, missing, <<>>,
                        DisplayText(nfl_player)))
      ELSE IF Unresolved(team_id)
      THEN rejected(Msg("unknown_team", nfl_team, <<>>, gsis_id, <<>>))
      ELSE IF Unresolved(pos_id)
      THEN rejected(Msg("unknown_position", nfl_pos, <<>>, gsis_id, <<>>))
      ELSE [ret |-> <<[gsis |-> gsis_id,
                       firstname |-> first_name,
                       lastname |-> last_name,
                       realteamid |-> team_id,
                       positionid |-> pos_id,
                       jersey_number |-> Get(nfl_player, "jersey_number", None),
                       display_name |->
                         Get(nfl_player, "display_name",
                             Str(FullName(first_name, last_name)))]>>,
            stats |-> Bump(st, "new_players"),
            errors |-> errs]

-----------------------------------------------------------------------------
(* generate_sql_script and _escape_sql.                                    *)

RECURSIVE DoubleQuotes(_)
\* str.replace("'", "''")
DoubleQuotes(s) ==
  IF s = <<>> THEN <<>>
  ELSE (IF Head(s) = "'" THEN <<"'", "'">> ELSE <<Head(s)>>)
         \o DoubleQuotes(Tail(s))

\* _escape_sql(value)
_escape_sql(value) == IF IsNa(value) THEN <<>> ELSE DoubleQuotes(PyStr(value))

\* f"'{text}'"
Quoted(text) == <<"'">> \o text \o <<"'">>

AllDigits(s) == \A i \in 1..Len(s) : InSeq(DigitChars, s[i])

RECURSIVE ParseInt(_)
ParseInt(s) ==
  IF s = <<>> THEN 0
  ELSE 10 * ParseInt(SubSeq(s, 1, Len(s) - 1))
         + (IndexIn(DigitChars, s[Len(s)]) - 1)

\* int(value) raises ValueError on text that is not a number
IntRaises(v) ==
  CASE v.k = "num" -> FALSE
    [] v.k = "str" -> Strip(v.s) = <<>> \/ ~AllDigits(Strip(v.s))
    [] OTHER -> TRUE

\* int(value)
IntOf(v) == IF v.k = "num" THEN v.n ELSE ParseInt(Strip(v.s))

\* `if insert.get('jersey_number') and not pd.isna(insert['jersey_number'])`
HasJersey(j) == Truthy(j) /\ ~IsNa(j)

\* the gsis literal of the VALUES list: f"'{insert['gsis']}'"
GsisLiteral(gsis) == Quoted(gsis)

\* one INSERT statement: its columns and its rendered values
RenderInsert(insert) ==
  LET j == insert.jersey_number
  IN  [columns |-> <<"FIRSTNAME", "LASTNAME", "GSIS", "REALTEAMID",
                     "POSITIONID", "ISONINJUREDRESERVE">>
                     \o (IF HasJersey(j) THEN <<"JERSEYNUMBER">> ELSE <<>>),
       values |-> <<Quoted(_escape_sql(Str(insert.firstname))),
                    Quoted(_escape_sql(Str(insert.lastname))),
                    GsisLiteral(insert.gsis),
                    Digits(insert.realteamid),
                    Digits(insert.positionid),
                    <<"0">> >>
                    \o (IF HasJersey(j) /\ ~IntRaises(j)
                        THEN <<Digits(IntOf(j))>> ELSE <<>>),
       comment |-> [name |-> PyStr(insert.display_name), gsis |-> insert.gsis]]

\* one UPDATE statement: its comment lines, SET clauses and WHERE key
RenderUpdate(update) ==
  LET c == update.changes
      has_team == "realteamid" \in DOMAIN c
      has_pos == "positionid" \in DOMAIN c
  IN  [comment |-> [name |-> PyStr(update.name), gsis |-> update.gsis],
       changes |->
         (IF has_team
          THEN <<[label |-> "Team", old |-> c["realteamid"].old_abbrev,
                  new |-> c["realteamid"].new_abbrev]>> ELSE <<>>)
         \o (IF has_pos
             THEN <<[label |-> "Position", old |-> c["positionid"].old_abbrev,
                     new |-> c["positionid"].new_abbrev]>> ELSE <<>>),
       set_clauses |->
         (IF has_team
          THEN <<[column |-> "REALTEAMID", value |-> Digits(c["realteamid"].new)]>>
          ELSE <<>>)
         \o (IF has_pos
             THEN <<[column |-> "POSITIONID", value |-> Digits(c["positionid"].new)]>>
             ELSE <<>>),
       oid |-> Digits(update.oid)]

\* the first insert whose rendering raises, or 0
FirstRaising(ins) ==
  IF \E i \in 1..Len(ins) :
       HasJersey(ins[i].jersey_number) /\ IntRaises(ins[i].jersey_number)
  THEN CHOOSE i \in 1..Len(ins) :
         /\ HasJersey(ins[i].jersey_number) /\ IntRaises(ins[i].jersey_number)
         /\ \A k \in 1..(i - 1) :
              ~(HasJersey(ins[k].jersey_number) /\ IntRaises(ins[k].jersey_number))
  ELSE 0

\* what generate_sql_script has written when it returns or raises
RenderScript(upds, ins) ==
  LET bad == FirstRaising(ins)
      done == IF bad = 0 THEN Len(ins) ELSE bad - 1
  IN  [update_stmts |-> [i \in 1..Len(upds) |-> RenderUpdate(upds[i])],
       insert_stmts |-> [i \in 1..done |-> RenderInsert(ins[i])],
       raised |-> bad # 0]

NoScript == [update_stmts |-> <<>>, insert_stmts |-> <<>>, raised |-> FALSE]

-----------------------------------------------------------------------------
(* The store: TBLPLAYERS rows with a GSIS, as fetch_database_players       *)
(* selects them, and the lookup reconcile_players builds from them.        *)

DbRow(oid, gsis, team, pos) ==
  [OID |-> oid, GSIS |-> gsis, REALTEAMID |-> team, POSITIONID |-> pos]

\* db_df.set_index('GSIS').to_dict('index'): the last row of a GSIS wins
DbLookup(db) ==
  [g \in {db[i].GSIS : i \in DOMAIN db} |->
     LET last == CHOOSE i \in DOMAIN db :
                   db[i].GSIS = g /\ \A k \in DOMAIN db : db[k].GSIS = g => k <= i
     IN  [OID |-> db[last].OID,
          REALTEAMID |-> db[last].REALTEAMID,
          POSITIONID |-> db[last].POSITIONID,
          CURRENT_TEAM |-> LabelOf(get_team_mapping, db[last].REALTEAMID),
          CURRENT_POSITION |-> LabelOf(get_position_mapping, db[last].POSITIONID)]]

\* UPDATE ... SET ... WHERE OID = oid, executed on the table
ExecUpdate(db, update) ==
  [i \in DOMAIN db |->
     IF db[i].OID # update.oid THEN db[i]
     ELSE [db[i] EXCEPT
             !.REALTEAMID = IF "realteamid" \in DOMAIN update.changes
                            THEN update.changes["realteamid"].new ELSE @,
             !.POSITIONID = IF "positionid" \in DOMAIN update.changes
                            THEN update.changes["positionid"].new ELSE @]]

NextOid(db) ==
  IF db = <<>> THEN 1
  ELSE 1 + (CHOOSE m \in {db[i].OID : i \in DOMAIN db} :
              \A i \in DOMAIN db : db[i].OID <= m)

\* INSERT INTO ... VALUES (...), executed on the table
ExecInsert(db, insert) ==
  Append(db, DbRow(NextOid(db), insert.gsis, insert.realteamid, insert.positionid))

RECURSIVE ExecAll(_, _, _)
\* the statements of the script in their order: updates, then inserts
ExecAll(db, upds, ins) ==
  IF upds # <<>> THEN ExecAll(ExecUpdate(db, Head(upds)), Tail(upds), ins)
  ELSE IF ins # <<>> THEN ExecAll(ExecInsert(db, Head(ins)), upds, Tail(ins))
  ELSE db

-----------------------------------------------------------------------------
VARIABLES
  source,          \* nfl_df: the feed rows, in feed order
  db_df,           \* the rows fetch_database_players returns
  full_reconcile,  \* self.full_reconcile
  run,             \* 1: the first run; 2: the run after the script was executed
  pc,              \* "loop", "reconciled", "generated", "failed", "finished"
  idx,             \* the row the loop of reconcile_players is at
  stats,           \* self.stats
  updates,         \* the updates list
  inserts,         \* the inserts list
  errors,          \* self.errors
  warnings,        \* self.warnings
  script,          \* what generate_sql_script wrote
  classified       \* history: per row the loop has passed, its outcome and
                   \* the counters and list lengths before and after it

vars == <<source, db_df, full_reconcile, run, pc, idx, stats, updates, inserts,
          errors, warnings, script, classified>>

Row(g, f, l, d, t, p, j) ==
  [gsis_id |-> g, first_name |-> f, last_name |-> l, display_name |-> d,
   latest_team |-> t, position |-> p, jersey_number |-> j]

RowSet(GS, FN, LN, DN, TM, PS, JN) ==
  {Row(g, f, l, d, t, p, j) :
     g \in GS, f \in FN, l \in LN, d \in DN, t \in TM, p \in PS, j \in JN}

SeqsUpTo(S, n) == UNION {[1..k -> S] : k \in 0..n}

\* the state when reconcile_players is entered on a fresh reconciler
InitOver(Sources, Tables) ==
  /\ source \in Sources
  /\ db_df \in Tables
  /\ full_reconcile \in BOOLEAN
  /\ run = 1
  /\ pc = "loop"
  /\ idx = 1
  /\ stats = ZeroStats
  /\ updates = <<>>
  /\ inserts = <<>>
  /\ errors = <<>>
  /\ warnings = <<>>
  /\ script = NoScript
  /\ classified = <<>>

\* a variant that skips only a missing key, not a blank one
SkipsRowNaOnly(nfl_player) == IsNa(Get(nfl_player, "gsis_id", None))

\* `if pd.isna(gsis_id) or str(gsis_id).strip() == ''`
SkipsRow(nfl_player) ==
  LET gsis_id == Get(nfl_player, "gsis_id", None)
  IN  IsNa(gsis_id) \/ Strip(PyStr(gsis_id)) = <<>>

\* `gsis_id = str(gsis_id).strip()`
RowKey(nfl_player) == Strip(PyStr(Get(nfl_player, "gsis_id", None)))

\* a variant that reconciles only the first row of each key
ContinuesAtRepeated(src, i) ==
  \/ SkipsRow(src[i])
  \/ \E k \in 1..(i - 1) : ~SkipsRow(src[k]) /\ RowKey(src[k]) = RowKey(src[i])

\* whether the iteration on row i of the feed ends at `continue`
ContinuesAt(src, i) == SkipsRow(src[i])

\* a variant that finds no key in the lookup
IsMatchedNever(gsis_id, db_lookup) == FALSE

\* `if gsis_id in db_lookup`
IsMatched(gsis_id, db_lookup) == gsis_id \in DOMAIN db_lookup

Counts(st, upds, ins, errs, warns) ==
  [stats |-> st, updates |-> Len(upds), inserts |-> Len(ins),
   errors |-> Len(errs), warnings |-> Len(warns)]

\* the history entry of one iteration
Passed(outcome, before, after) ==
  [outcome |-> outcome, before |-> before, after |-> after]

\* the counters and list lengths as they are; After' reads them after a step
Before == Counts(stats, updates, inserts, errors, warnings)

After == Counts(stats, updates, inserts, errors, warnings)

InLoop == pc = "loop" /\ idx <= Len(source)

\* one iteration that ends at `continue`
SkipRow ==
  /\ InLoop
  /\ ContinuesAt(source, idx)
  /\ idx' = idx + 1
  /\ UNCHANGED <<source, db_df, full_reconcile, run, pc, stats, updates,
                 inserts, errors, warnings, script>>
  /\ classified' = Append(classified, Passed("skipped", Before, After'))

\* one iteration on a row whose key is in db_lookup
MatchedRow ==
  /\ InLoop
  /\ ~ContinuesAt(source, idx)
  /\ IsMatched(RowKey(source[idx]), DbLookup(db_df))
  /\ \E r \in {_check_player_updates(source[idx],
                                      DbLookup(db_df)[RowKey(source[idx])],
                                      get_team_mapping, get_position_mapping,
                                      full_reconcile, stats, warnings)} :
     LET upds == IF r.ret # <<>> THEN Append(updates, r.ret[1]) ELSE updates
         st == IF r.ret # <<>> THEN r.stats ELSE Bump(r.stats, "unchanged")
     IN  /\ warnings' = r.warnings
         /\ updates' = upds
         /\ stats' = st
         /\ UNCHANGED <<inserts, errors>>
         /\ classified' =
              Append(classified,
                     Passed(IF r.ret # <<>> THEN "update" ELSE "unchanged",
                            Before, After'))
  /\ idx' = idx + 1
  /\ UNCHANGED <<source, db_df, full_reconcile, run, pc, script>>

\* one iteration on a row whose key is not in db_lookup
UnmatchedRow ==
  /\ InLoop
  /\ ~ContinuesAt(source, idx)
  /\ ~IsMatched(RowKey(source[idx]), DbLookup(db_df))
  /\ \E r \in {_prepare_player_insert(source[idx], get_team_mapping,
                                       get_position_mapping, stats, errors)} :
     LET ins == IF r.ret # <<>> THEN Append(inserts, r.ret[1]) ELSE inserts
     IN  /\ errors' = r.errors
         /\ stats' = r.stats
         /\ inserts' = ins
         /\ UNCHANGED <<updates, warnings>>
         /\ classified' =
              Append(classified,
                     Passed(IF r.ret # <<>> THEN "insert" ELSE "rejected",
                            Before, After'))
  /\ idx' = idx + 1
  /\ UNCHANGED <<source, db_df, full_reconcile, run, pc, script>>

\* `return updates, inserts`
Return ==
  /\ pc = "loop"
  /\ idx > Len(source)
  /\ pc' = "reconciled"
  /\ UNCHANGED <<source, db_df, full_reconcile, run, idx, stats, updates,
                 inserts, errors, warnings, script, classified>>

\* run(): `if not self.dry_run: if updates or inserts: generate_sql_script`
GenerateSqlScript ==
  /\ pc = "reconciled"
  /\ updates # <<>> \/ inserts # <<>>
  /\ \E written \in {RenderScript(updates, inserts)} :
       /\ script' = written
       /\ pc' = IF written.raised THEN "failed" ELSE "generated"
  /\ UNCHANGED <<source, db_df, full_reconcile, run, idx, stats, updates,
                 inserts, errors, warnings, classified>>

\* run(): a dry run, or no changes - no script is written
SkipScript ==
  /\ pc = "reconciled"
  /\ \E dry_run \in BOOLEAN : dry_run \/ (updates = <<>> /\ inserts = <<>>)
  /\ pc' = "finished"
  /\ UNCHANGED <<source, db_df, full_reconcile, run, idx, stats, updates,
                 inserts, errors, warnings, script, classified>>

\* The reviewed script is executed on the store, and the program is run
\* again on the same feed with a fresh reconciler.
ExecuteAndRerun ==
  /\ pc = "generated"
  /\ run = 1
  /\ db_df' = ExecAll(db_df, updates, inserts)
  /\ run' = 2
  /\ pc' = "loop"
  /\ idx' = 1
  /\ stats' = ZeroStats
  /\ updates' = <<>>
  /\ inserts' = <<>>
  /\ errors' = <<>>
  /\ warnings' = <<>>
  /\ script' = NoScript
  /\ classified' = <<>>
  /\ UNCHANGED <<source, full_reconcile>>

Next ==
  \/ SkipRow
  \/ MatchedRow
  \/ UnmatchedRow
  \/ Return
  \/ GenerateSqlScript
  \/ SkipScript
  \/ ExecuteAndRerun

-----------------------------------------------------------------------------
(* Inputs: text the feed and the store hold.                               *)

A == <<"A">>
B == <<"B">>

\* stores: TBLPLAYERS with unique GSIS and OID
Stores ==
  { <<>>,
    <<DbRow(1, A, 5, 9)>>,
    <<DbRow(1, A, 3, 12), DbRow(2, B, 5, 9)>> }

\* rows that differ in key, team code and position code
DiffRows ==
  RowSet({Str(<<" ">>), Str(<<"A", " ">>), Str(B)},
         {Str(<<"J">>)}, {Str(<<"D">>)}, {Str(<<"J", " ", "D">>)},
         {Str(<<"k", "c">>), Str(DEN), Str(<<"X", "X">>)},
         {Str(<<" ", "q", "b">>), Str(<<"Z", "Z">>)},
         {Num(7)})

Init == InitOver(SeqsUpTo(DiffRows, MaxRows), Stores)

Spec == Init /\ [][Next]_vars

\* rows whose key is absent, empty, blank or present, with other fields set
KeyRows ==
  RowSet({Absent, NaN, Str(<<>>), Str(<<" ">>), Str(A)},
         {Str(<<"J">>), NaN}, {Str(<<"D">>)}, {Str(<<"J", " ", "D">>)},
         {Str(<<"k", "c">>), Str(<<"X", "X">>)},
         {Str(<<" ", "q", "b">>)},
         {Num(7)})

KeyStores == { <<>>, <<DbRow(1, A, 5, 9)>> }

InitKeys == InitOver(SeqsUpTo(KeyRows, MaxRows), KeyStores)

SpecKeys == InitKeys /\ [][Next]_vars

\* a cell that is not in the row, empty, blank, or set
Cells(text) == {Absent, NaN, Str(<<" ">>), Str(text)}

\* single rows: every combination of missing and set required fields
RequiredRows ==
  RowSet({Str(<<" ">>), Str(B)},
         Cells(<<"J">>), Cells(<<"D">>), {Str(<<"J", " ", "D">>)},
         Cells(<<"k", "c">>), Cells(<<"q", "b">>),
         {Num(7)})

InitRequired == InitOver({<<r>> : r \in RequiredRows}, {<<>>, <<DbRow(1, B, 5, 9)>>})

SpecRequired == InitRequired /\ [][Next]_vars

\* rows whose texts hold single quotes and whose jersey number is absent,
\* empty, zero, a number, or not a number
QuoteRows ==
  RowSet({Str(<<" ">>), Str(B), Str(<<"B", "'">>)},
         {Str(<<"J">>), Str(<<"O", "'", "N">>), Str(<<"'", "'">>)},
         {Str(<<"D">>), Str(<<"'">>)}, {Str(<<"J", " ", "D">>)},
         {Str(<<"k", "c">>)}, {Str(<<"q", "b">>)},
         {Absent, NaN, Num(0), Num(7), Str(<<"x">>)})

InitQuotes == InitOver(SeqsUpTo(QuoteRows, MaxRows), {<<>>, <<DbRow(1, B, 5, 9)>>})

SpecQuotes == InitQuotes /\ [][Next]_vars

-----------------------------------------------------------------------------
(* Vocabulary of the properties, stated on the inputs and on the history.  *)

\* the external id of a feed row is present and non-blank
HasExternalId(row) == row.gsis_id.k = "str" /\ Strip(row.gsis_id.s) # <<>>

\* the external id after trimming
ExternalId(row) == Strip(row.gsis_id.s)

StoreKeys == {db_df[i].GSIS : i \in DOMAIN db_df}

\* the store row of an external id (of several, the one the snapshot keeps)
StoreRow(id) ==
  db_df[CHOOSE i \in DOMAIN db_df :
          db_df[i].GSIS = id /\ \A k \in DOMAIN db_df : db_df[k].GSIS = id => k <= i]

\* a code as the reference mapper normalizes it: trimmed, upper-cased
CodeOf(cell) == IF cell.k = "str" THEN Upper(Strip(cell.s)) ELSE <<>>

\* rows the loop has passed in this run
PassedRows == 1..Len(classified)

InStore(i) == HasExternalId(source[i]) /\ ExternalId(source[i]) \in StoreKeys

NotInStore(i) == HasExternalId(source[i]) /\ ExternalId(source[i]) \notin StoreKeys

StatsTotal(st) ==
  st.team_updates + st.position_updates + st.new_players
    + st.unchanged + st.warnings + st.errors

\* the same counters and list lengths before and after row i
NothingChanged(i) == classified[i].after = classified[i].before

Delta(i, key) == classified[i].after.stats[key] - classified[i].before.stats[key]

Added(i, list) == classified[i].after[list] - classified[i].before[list]

\* C1: a row whose trimmed, non-empty external id is a key of the store
\* snapshot is exactly one of matched-changed (one update appended, unchanged
\* not counted) or matched-unchanged (unchanged counted once, no update); it
\* adds no insert, no new_players count and no error.
C1_MatchedNeverInserted ==
  \A i \in PassedRows :
    InStore(i) =>
      /\ classified[i].outcome \in {"update", "unchanged"}
      /\ \/ Added(i, "updates") = 1 /\ Delta(i, "unchanged") = 0
         \/ Added(i, "updates") = 0 /\ Delta(i, "unchanged") = 1
      /\ Added(i, "inserts") = 0
      /\ Delta(i, "new_players") = 0
      /\ Added(i, "errors") = 0
      /\ Delta(i, "errors") = 0

\* two matched rows have been reconciled, one changed and one unchanged
C1_Witness ==
  /\ run = 1
  /\ pc = "reconciled"
  /\ Len(classified) = 2
  /\ InStore(1) /\ InStore(2)
  /\ classified[1].outcome = "update"
  /\ classified[2].outcome = "unchanged"
  /\ Len(updates) = 1
  /\ stats.unchanged = 1
  /\ inserts = <<>>

\* C2: in team-only mode no update carries a position change,
\* position_updates stays 0 and no unknown-position warning is recorded,
\* whatever the position codes of the feed and the store's position_ref.
C2_ModeGating ==
  ~full_reconcile =>
    /\ \A i \in 1..Len(updates) : "positionid" \notin DOMAIN updates[i].changes
    /\ stats.position_updates = 0
    /\ \A i \in 1..Len(warnings) : warnings[i].kind # "unknown_position"

\* team-only mode has passed a matched row whose position resolves to another
\* identifier than the store's, and a matched row with an unknown position code
C2_Witness ==
  /\ ~full_reconcile
  /\ run = 1
  /\ Len(classified) = 2
  /\ InStore(1) /\ InStore(2)
  /\ CodeOf(source[1].position) \in DOMAIN get_position_mapping
  /\ get_position_mapping[CodeOf(source[1].position)]
       # StoreRow(ExternalId(source[1])).POSITIONID
  /\ CodeOf(source[2].position) # <<>>
  /\ CodeOf(source[2].position) \notin DOMAIN get_position_mapping

UnknownTeam(i) ==
  /\ CodeOf(source[i].latest_team) # <<>>
  /\ CodeOf(source[i].latest_team) \notin DOMAIN get_team_mapping

TeamWarnings(n) ==
  SelectSeq(SubSeq(warnings, 1, n), LAMBDA w : w.kind = "unknown_team")

\* C3: an unresolvable, non-empty team code on a matched row gives no team
\* change, exactly one unknown-team warning naming the code and no error; on
\* an unmatched row it gives no insert, no new_players count, exactly one
\* error and no warning.
C3_AsymmetricUnknownTeam ==
  \A i \in PassedRows :
    /\ (InStore(i) /\ UnknownTeam(i)) =>
         /\ Delta(i, "team_updates") = 0
         /\ Added(i, "updates") = 1 =>
              "realteamid" \notin DOMAIN updates[classified[i].after.updates].changes
         /\ Len(TeamWarnings(classified[i].after.warnings))
              = Len(TeamWarnings(classified[i].before.warnings)) + 1
         /\ LET tw == TeamWarnings(classified[i].after.warnings)
            IN  tw[Len(tw)].code = CodeOf(source[i].latest_team)
         /\ Added(i, "errors") = 0
         /\ Delta(i, "errors") = 0
    /\ (NotInStore(i) /\ UnknownTeam(i)) =>
         /\ classified[i].outcome = "rejected"
         /\ Added(i, "inserts") = 0
         /\ Delta(i, "new_players") = 0
         /\ Added(i, "errors") = 1
         /\ Delta(i, "errors") = 1
         /\ Added(i, "warnings") = 0
         /\ Delta(i, "warnings") = 0

\* the same unknown team code on a matched and on an unmatched row
C3_Witness ==
  /\ run = 1
  /\ Len(classified) = 2
  /\ InStore(1) /\ UnknownTeam(1)
  /\ NotInStore(2) /\ UnknownTeam(2)
  /\ source[1].latest_team = source[2].latest_team
  /\ Len(warnings) >= 1
  /\ Len(errors) = 1
  /\ inserts = <<>>

\* the team code of row i resolves to the store's team_ref
TeamInSync(i) ==
  /\ CodeOf(source[i].latest_team) \in DOMAIN get_team_mapping
  /\ get_team_mapping[CodeOf(source[i].latest_team)]
       = StoreRow(ExternalId(source[i])).REALTEAMID

\* the position code of row i resolves to the store's position_ref
PositionInSync(i) ==
  /\ CodeOf(source[i].position) \in DOMAIN get_position_mapping
  /\ get_position_mapping[CodeOf(source[i].position)]
       = StoreRow(ExternalId(source[i])).POSITIONID

\* a matched row in sync with the store yields no proposal and no update
\* count, and is counted as unchanged
InSyncIsUnchanged ==
  \A i \in PassedRows :
    (InStore(i) /\ TeamInSync(i) /\ (full_reconcile => PositionInSync(i))) =>
      /\ classified[i].outcome = "unchanged"
      /\ Added(i, "updates") = 0
      /\ Delta(i, "team_updates") = 0
      /\ Delta(i, "position_updates") = 0
      /\ Delta(i, "unchanged") = 1

\* no two feed rows share a non-empty external id (after trimming)
UniqueIds ==
  \A i, j \in DOMAIN source :
    (i < j /\ HasExternalId(source[i]) /\ HasExternalId(source[j])) =>
      ExternalId(source[i]) # ExternalId(source[j])

\* C5 as stated: a matched row in sync with the store is unchanged, and the
\* run after the first run's updates and inserts were applied proposes none.
C5_Original ==
  /\ InSyncIsUnchanged
  /\ (run = 2 /\ pc = "reconciled") => (updates = <<>> /\ inserts = <<>>)

\* C5 (amended): a matched row in sync with the store is unchanged; and when
\* no two feed rows share a non-empty external id, the run after the first
\* run's updates and inserts were applied proposes no update and no insert.
C5_Idempotence ==
  /\ InSyncIsUnchanged
  /\ (run = 2 /\ UniqueIds) => (updates = <<>> /\ inserts = <<>>)

\* the second run has passed two rows with distinct ids, both resolvable, on
\* the store the first run's proposals were applied to
C5_Witness ==
  /\ run = 2
  /\ pc = "reconciled"
  /\ full_reconcile
  /\ UniqueIds
  /\ Len(source) = 2
  /\ InStore(1) /\ InStore(2)
  /\ TeamInSync(1) /\ TeamInSync(2)
  /\ PositionInSync(1) /\ PositionInSync(2)
  /\ stats.unchanged = 2

TotalDelta(i) ==
  StatsTotal(classified[i].after.stats) - StatsTotal(classified[i].before.stats)

\* C7 as stated: a row with a non-empty external id raises the total of the
\* six counters by exactly one.
C7_Original ==
  \A i \in PassedRows : HasExternalId(source[i]) => TotalDelta(i) = 1

\* the number of field changes of the update row i appended
ChangesOf(i) == Cardinality(DOMAIN updates[classified[i].after.updates].changes)

\* C7 (amended): a row with a non-empty external id raises the total of the
\* six counters by at least one and at most three: by exactly one when it is
\* unmatched (new_players or errors), and when it is matched by one per field
\* change (or one for unchanged) plus one per unknown-code warning.
C7_CountersPerRecord ==
  \A i \in PassedRows :
    HasExternalId(source[i]) =>
      /\ TotalDelta(i) \in 1..3
      /\ Delta(i, "warnings") = Added(i, "warnings")
      /\ Delta(i, "errors") = Added(i, "errors")
      /\ NotInStore(i) =>
           /\ TotalDelta(i) = 1
           /\ Delta(i, "new_players") + Delta(i, "errors") = 1
      /\ InStore(i) =>
           TotalDelta(i) =
             (IF classified[i].outcome = "update" THEN ChangesOf(i) ELSE 1)
               + Added(i, "warnings")

\* one matched row raised the total by three, an unmatched row by one
C7_Witness ==
  /\ Len(classified) = 2
  /\ InStore(1) /\ TotalDelta(1) = 3
  /\ NotInStore(2) /\ TotalDelta(2) = 1

Repeats(i, j) ==
  /\ i < j
  /\ HasExternalId(source[i]) /\ HasExternalId(source[j])
  /\ ExternalId(source[i]) = ExternalId(source[j])

\* C10 as stated: of rows sharing a non-empty external id only the first is
\* reconciled; a later one changes no list and no counter, so each list has
\* at most one proposal per external id.
C10_Original ==
  /\ \A i, j \in PassedRows : Repeats(i, j) => NothingChanged(j)
  /\ \A i, j \in 1..Len(updates) : updates[i].gsis = updates[j].gsis => i = j
  /\ \A i, j \in 1..Len(inserts) : inserts[i].gsis = inserts[j].gsis => i = j

\* C10 (amended): rows sharing a non-empty external id are each reconciled,
\* against the same store snapshot: a later row is matched or unmatched as the
\* first was, is never skipped, adds its own update, unchanged count, insert
\* or error, and a row equal to an earlier one has the same outcome and the
\* same effect on the counters and lists.
C10_EveryOccurrenceReconciled ==
  \A i, j \in PassedRows :
    Repeats(i, j) =>
      /\ classified[j].outcome # "skipped"
      /\ (classified[j].outcome \in {"update", "unchanged"})
           <=> (classified[i].outcome \in {"update", "unchanged"})
      /\ Added(j, "updates") + Delta(j, "unchanged")
           + Added(j, "inserts") + Added(j, "errors") = 1
      /\ source[i] = source[j] =>
           /\ classified[j].outcome = classified[i].outcome
           /\ \A l \in {"updates", "inserts", "errors", "warnings"} :
                Added(j, l) = Added(i, l)
           /\ \A k \in DOMAIN ZeroStats : Delta(j, k) = Delta(i, k)

\* two rows with one external id have each added an update
C10_Witness ==
  /\ Len(classified) = 2
  /\ Repeats(1, 2)
  /\ Len(updates) = 2
  /\ updates[1].gsis = updates[2].gsis
  /\ updates[1].changes # updates[2].changes

\* C8: a row whose external id is missing or blank after trimming is
\* skipped: it adds nothing to the updates, inserts, errors or warnings lists
\* and changes none of the six counters, whatever its other fields hold.
C8_BlankIdSkipped ==
  \A i \in PassedRows :
    ~HasExternalId(source[i]) =>
      /\ classified[i].outcome = "skipped"
      /\ NothingChanged(i)

\* a row without the key column and a row with a blank key, both with names
\* and codes set, have been passed and nothing was recorded
C8_Witness ==
  /\ pc = "reconciled"
  /\ Len(classified) = 2
  /\ source[1].gsis_id = Absent
  /\ source[2].gsis_id = Str(<<" ">>)
  /\ source[1].first_name.k = "str" /\ source[2].latest_team.k = "str"
  /\ stats = ZeroStats
  /\ updates = <<>> /\ inserts = <<>> /\ errors = <<>> /\ warnings = <<>>

\* a required cell is missing: not in the row, empty, or blank after trimming
Missing(cell) ==
  cell.k \in {"absent", "nan"} \/ (cell.k = "str" /\ Strip(cell.s) = <<>>)

RequiredFields == {"gsis_id", "first_name", "last_name", "latest_team", "position"}

MissingOf(row) == {f \in RequiredFields : Missing(row[f])}

Range(seq) == {seq[k] : k \in DOMAIN seq}

\* C4 as stated: an unmatched row with a missing required field yields no
\* proposal and exactly one error naming the missing fields and only those,
\* errors is counted once and new_players is not; and no insert proposal has
\* one of the five fields empty or unresolved.
C4_Original ==
  /\ \A i \in PassedRows :
       (NotInStore(i) /\ MissingOf(source[i]) # {}) =>
         /\ classified[i].outcome = "rejected"
         /\ Added(i, "inserts") = 0
         /\ Delta(i, "new_players") = 0
         /\ Added(i, "errors") = 1
         /\ Delta(i, "errors") = 1
         /\ errors[classified[i].after.errors].kind = "missing_fields"
         /\ Range(errors[classified[i].after.errors].missing) = MissingOf(source[i])
  /\ \A k \in 1..Len(inserts) :
       /\ inserts[k].gsis # <<>>
       /\ inserts[k].firstname # <<>>
       /\ inserts[k].lastname # <<>>
       /\ inserts[k].realteamid \in Range(get_team_mapping)
       /\ inserts[k].positionid \in Range(get_position_mapping)

\* the SQL reading of the text after the opening quote of a string literal:
\* '' is one quote, a single quote ends the literal, which must end the token
RECURSIVE ReadBody(_)
ReadBody(s) ==
  IF s = <<>> THEN [ok |-> FALSE, text |-> <<>>]
  ELSE IF Head(s) # "'"
  THEN LET r == ReadBody(Tail(s))
       IN  [ok |-> r.ok, text |-> <<Head(s)>> \o r.text]
  ELSE IF Len(s) >= 2 /\ s[2] = "'"
  THEN LET r == ReadBody(Tail(Tail(s)))
       IN  [ok |-> r.ok, text |-> <<"'">> \o r.text]
  ELSE [ok |-> Len(s) = 1, text |-> <<>>]

ReadLiteral(token) ==
  IF token = <<>> \/ Head(token) # "'"
  THEN [ok |-> FALSE, text |-> <<>>]
  ELSE ReadBody(Tail(token))

ReadsBackAs(token, text) == ReadLiteral(token) = [ok |-> TRUE, text |-> text]

\* C6 as stated: the first name, last name and external id literals of every
\* rendered INSERT statement read back as the proposal's values.
C6_Original ==
  \A k \in 1..Len(script.insert_stmts) :
    /\ ReadsBackAs(script.insert_stmts[k].values[1], inserts[k].firstname)
    /\ ReadsBackAs(script.insert_stmts[k].values[2], inserts[k].lastname)
    /\ ReadsBackAs(script.insert_stmts[k].values[3], inserts[k].gsis)

\* the feed row the k-th insert proposal was built from
InsertRow(k) ==
  CHOOSE i \in PassedRows :
    classified[i].outcome = "insert" /\ classified[i].after.inserts = k

\* C9 as stated: once the script is rendered, rendering has not failed, and
\* every insert carries the source jersey number, its statement having a
\* JERSEYNUMBER equal to the source value exactly when that value is a number
\* (0 included).
C9_Original ==
  pc \in {"generated", "failed"} =>
    /\ ~script.raised
    /\ \A k \in 1..Len(inserts) :
         LET cell == source[InsertRow(k)].jersey_number
             stmt == script.insert_stmts[k]
         IN  /\ cell.k = "num" => inserts[k].jersey_number = cell
             /\ ("JERSEYNUMBER" \in Range(stmt.columns)) <=> (cell.k = "num")
             /\ cell.k = "num" =>
                  /\ Len(stmt.values) = Len(stmt.columns)
                  /\ stmt.values[Len(stmt.values)] = Digits(cell.n)

\* feed rows with a non-empty external id among those the loop has passed
RowsWithId == {i \in 1..(idx - 1) : HasExternalId(source[i])}

\* C11: on a fresh reconciler every feed row with a non-empty external id is
\* accounted for exactly once among update, unchanged, insert and rejected -
\* len(updates) + unchanged + len(inserts) + errors is the number of such
\* rows passed (all of them once reconcile_players has returned) - and
\* new_players, errors and warnings equal the lengths of the inserts, errors
\* and warnings lists.
C11_Accounting ==
  /\ idx \in 1..(Len(source) + 1)
  /\ pc # "loop" => idx = Len(source) + 1
  /\ Len(updates) + stats.unchanged + Len(inserts) + stats.errors
       = Cardinality(RowsWithId)
  /\ stats.new_players = Len(inserts)
  /\ stats.errors = Len(errors)
  /\ stats.warnings = Len(warnings)

\* reconcile_players has returned on a feed of two rows with ids: one gave an
\* update and a warning, the other was rejected
C11_Witness ==
  /\ run = 1
  /\ pc = "reconciled"
  /\ Len(source) = 2
  /\ Cardinality(RowsWithId) = 2
  /\ Len(updates) = 1
  /\ stats.warnings >= 1
  /\ stats.errors = 1
  /\ inserts = <<>>

====
